---- MODULE Spec2Model ----
(***************************************************************************)
(* HardLight: an RPC runtime over a WebSocket with per-connection state    *)
(* replication.  One client connection is modelled end to end:             *)
(*   - the application wrapper (CounterClient) and its submit channel,     *)
(*   - the client connection task (Client::connect),                       *)
(*   - the two directions of the socket,                                   *)
(*   - the server connection task (Server::handle_connection), its         *)
(*     spawned handler tasks, the state mutex with its StateGuard, and     *)
(*     the detached tasks that forward state diffs.                        *)
(***************************************************************************)
EXTENDS Integers, Sequences, FiniteSets, TLC

\* ------------------------------------------------------------------ bounds

\* Size of the ID space.  The program uses 256 (client.rs:143, server.rs:169);
\* the model keeps the table and shrinks it.
NumSlots == 2
\* Number of calls the application issues in one behaviour.
MaxCalls == 3
\* Protocol major versions range over 0..MaxMajor.
MaxMajor == 1
\* Largest amount passed to increment.
MaxAmount == 1
\* mpsc::channel(10) of the submit channel (client.rs:137), shrunk.
SubmitCap == 2
\* mpsc::channel(10) of the state-change channel (server.rs:132), shrunk.
StateChangeCap == 2

\* Frames a peer that is not HardLight's own sends in one behaviour.
MaxForeign == 2
\* Frames of a client that does nothing but increment, in one behaviour.
MaxBurst == 3

\* A response channel one place short of the ID space.
ResponseCapShort == NumSlots - 1

\* mpsc::channel(u8::MAX as usize + 1): as large as the ID space (server.rs:171).
ResponseCap == NumSlots

Ids == 0 .. (NumSlots - 1)
Calls == 1 .. MaxCalls
Majors == 0 .. MaxMajor
Amounts == 0 .. MaxAmount
\* An empty slot: Option::None of active_rpc_calls.
NoCall == 0

\* ------------------------------------------------------------- wire values

\* format!("hl/{}", version.major): the prefix and the major number.
HlVersionString(major) == <<"hl", major>>
\* An absent Sec-WebSocket-Protocol header.
NoHeader == <<>>

\* A u32 is kept as its 32-bit pattern, written as the integer in
\* MinI32 .. MaxI32 that has this pattern in two's complement: 0 .. 2^31 - 1
\* stand for themselves, -1 stands for u32::MAX.
MaxI32 == 2147483647
MinI32 == (-MaxI32) - 1

\* a < b as u32.
ULt(a, b) == IF (a >= 0) = (b >= 0) THEN a < b ELSE a >= 0

\* a.wrapping_add(b) on the patterns.
WrapAdd(a, b) ==
    IF a >= 0 /\ b >= 0 /\ a > MaxI32 - b THEN (a + MinI32) + (b + MinI32)
    ELSE IF a < 0 /\ b < 0 /\ a < MinI32 - b THEN (a - MinI32) + (b - MinI32)
    ELSE a + b
\* a.wrapping_sub(b) on the patterns.
WrapSub(a, b) == WrapAdd(a, IF b = MinI32 THEN MinI32 ELSE -b)

\* rkyv::to_bytes::<u32, 1024>: four little-endian bytes.
EncodeU32(v) ==
    << v % 256, (v \div 256) % 256, (v \div 65536) % 256, (v \div 16777216) % 256 >>
\* rkyv::from_bytes::<u32>: fails unless exactly four bytes are given.
DecodeOk(b) == Len(b) = 4
DecodeU32(b) ==
    b[1] + 256 * b[2] + 65536 * b[3] + 16777216 * (IF b[4] >= 128 THEN b[4] - 256 ELSE b[4])

\* The bytes of an RpcCall { method, args } as the stub builds them
\* (CounterClient::handle_rpc_call), or bytes that are no RpcCall at all.
RpcCallBytes(method, args) == [method |-> method, args |-> args]
GarbageBytes == [method |-> "Garbage", args |-> <<>>]
\* Counter::increment(amount) and Counter::get() of the client stub, the
\* two methods the program's main calls (main.rs:41-68).
Payloads ==
    {RpcCallBytes("Increment", EncodeU32(a)) : a \in Amounts}
        \cup {RpcCallBytes("Get", <<>>), GarbageBytes}
\* With Counter::decrement(amount), which a client is free to call as well.
RawPayloads == Payloads \cup {RpcCallBytes("Decrement", EncodeU32(a)) : a \in Amounts}

\* Result<Vec<u8>, RpcHandlerError>
OkOutput(bytes) == [tag |-> "Ok", bytes |-> bytes]
ErrOutput(e) == [tag |-> e, bytes |-> <<>>]
\* What a waiting caller sees when its oneshot sender is dropped unsent.
Cancelled == [tag |-> "Cancelled", bytes |-> <<>>]
NoOutcome == [tag |-> "None", bytes |-> <<>>]

\* ClientMessage::RPCRequest { id, internal }
RPCRequest(id, internal) == [type |-> "RPCRequest", id |-> id, internal |-> internal]
\* ServerMessage::RPCResponse { id, output }
RPCResponse(id, output) == [type |-> "RPCResponse", id |-> id, output |-> output]
\* ServerMessage::StateChange(changes); rel is the release number of the guard
\* that produced the list (history only, not on the wire).
StateChange(changes, rel) == [type |-> "StateChange", changes |-> changes, rel |-> rel]

VARIABLES
    \* handshake
    clientMajor,        \* major version the client was built at
    serverMajor,        \* major version the server was built at
    hsReq,              \* the upgrade request and its Sec-WebSocket-Protocol header
    hsResp,             \* the upgrade response, status "none" before it is sent
    nForeign,           \* frames sent so far by a peer that is not HardLight's own
    \* application wrapper (CounterClient)
    appPc,              \* "New" | "Waiting" | "Connected" | "Failed"
    shutdown,           \* the shutdown oneshot: "armed" | "fired"
    nSubmitted,         \* calls handed to the submit channel so far
    callStatus,         \* per call: "new" | "queued" | "pending" | "done"
    callOutcome,        \* per call: what the completion handle delivered
    signalled,          \* per call: how often the completion handle was signalled or dropped
    callId,             \* per call: the ID its RpcRequest was sent with, NumSlots if none
    \* client connection task (Client::connect)
    cliPc,              \* "Idle" | "Connecting" | "Running" | "Closed"
    connectResult,      \* what Client::connect returned: "none" | "Ok" | "ConnectError" | "HandshakeIncomplete"
    okSent,             \* ok_tx.send(()) happened
    ctlSent,            \* control_channels_tx.send((rpc_tx,)) happened
    errSent,            \* error_tx.send(e) happened
    rpc_rx,             \* the submit channel: sequence of [call, internal]
    active_rpc_calls,   \* the slot table: Ids -> call or NoCall
    cliState,           \* the client's replica: CounterState.counter
    \* socket
    sockUp,             \* the WebSocket is usable in both directions
    c2s,                \* frames from client to server
    s2c,                \* frames from server to client
    \* server connection task (Server::handle_connection)
    srvPc,              \* "Accepted" | "Running" | "Closed" | "Panicked"
    in_flight,          \* the busy table: Ids -> BOOLEAN
    srv_rpc_rx,         \* the response channel
    state_change_rx,    \* the state-change channel
    tasks,              \* spawned handler tasks
    nSpawned,           \* handler tasks spawned so far
    nDispatched,        \* responses taken from the response channel so far
    nIgnored,           \* requests dropped by the duplicate-ID guard so far
    panicked,           \* IDs whose handler task panicked and sent no response
    \* per-connection state (CounterConnectionState)
    srvState,           \* CounterState.counter behind the mutex
    holder,             \* task holding the mutex, 0 when free
    diffTasks,          \* detached tasks spawned by StateGuard::drop
    nReleased,          \* guards released with a non-empty diff so far
    wireLog,            \* release numbers of the StateChange envelopes sent, in order
    \* the server's other connection
    other               \* the socket, task and handler state of the connection not in view

hsVars == <<clientMajor, serverMajor, hsReq, hsResp, nForeign>>
appVars == <<appPc, shutdown, nSubmitted>>
callVars == <<callStatus, callOutcome, signalled, callId>>
cliVars == <<cliPc, connectResult, okSent, ctlSent, errSent, rpc_rx, active_rpc_calls, cliState>>
sockVars == <<sockUp, c2s, s2c>>
srvVars == <<srvPc, in_flight, srv_rpc_rx, state_change_rx, tasks, nSpawned, nDispatched,
            nIgnored, panicked>>
stateVars == <<srvState, holder, diffTasks, nReleased, wireLog>>
vars == <<hsVars, appVars, callVars, cliVars, sockVars, srvVars, stateVars, other>>


\* ------------------------------------------------------------------- Init

\* What one connection of the server consists of before its task has done
\* anything (server.rs:131-173): the stream, in_flight = [false; 256], the
\* two fresh channels, and the handler the factory builds for it with a
\* CounterConnectionState of its own (main.rs:206-213).  conn numbers the
\* connections in the order Server::run accepted them: the first is in view
\* at the start, the second is not.
NewConnection ==
    [conn |-> 2,
     hsReq |-> [sent |-> FALSE, protocol |-> NoHeader],
     hsResp |-> [status |-> "none", protocol |-> NoHeader],
     sockUp |-> FALSE, c2s |-> <<>>, s2c |-> <<>>,
     srvPc |-> "Accepted",
     in_flight |-> [i \in Ids |-> FALSE],
     srv_rpc_rx |-> <<>>, state_change_rx |-> <<>>,
     tasks |-> {}, nSpawned |-> 0, nDispatched |-> 0, nIgnored |-> 0, panicked |-> {},
     srvState |-> 0, holder |-> 0, diffTasks |-> {}, nReleased |-> 0, wireLog |-> <<>>]

\* Client::new_with_config, Server::new, CounterClient::new_self_signed:
\* nothing is connected and no call was made.
Init ==
    /\ clientMajor \in Majors
    /\ serverMajor \in Majors
    /\ hsReq = [sent |-> FALSE, protocol |-> NoHeader]
    /\ hsResp = [status |-> "none", protocol |-> NoHeader]
    /\ nForeign = 0
    /\ appPc = "New"
    /\ shutdown = "armed"
    /\ nSubmitted = 0
    /\ callStatus = [c \in Calls |-> "new"]
    /\ callOutcome = [c \in Calls |-> NoOutcome]
    /\ signalled = [c \in Calls |-> 0]
    /\ callId = [c \in Calls |-> NumSlots]
    /\ cliPc = "Idle"
    /\ connectResult = "none"
    /\ okSent = FALSE
    /\ ctlSent = FALSE
    /\ errSent = FALSE
    /\ rpc_rx = <<>>
    /\ active_rpc_calls = [i \in Ids |-> NoCall]
    /\ cliState = 0
    /\ sockUp = FALSE
    /\ c2s = <<>>
    /\ s2c = <<>>
    /\ srvPc = "Accepted"
    /\ in_flight = [i \in Ids |-> FALSE]
    /\ srv_rpc_rx = <<>>
    /\ state_change_rx = <<>>
    /\ tasks = {}
    /\ nSpawned = 0
    /\ nDispatched = 0
    /\ nIgnored = 0
    /\ panicked = {}
    /\ srvState = 0
    /\ holder = 0
    /\ diffTasks = {}
    /\ nReleased = 0
    /\ wireLog = <<>>
    /\ other = NewConnection

\* ------------------------------------------------------------- channels

\* A send that never waits, whatever the channel holds.
SendReadyAlways(q, cap) == TRUE

\* Sender::send(..).await on a tokio mpsc::channel(cap) (client.rs:137,
\* server.rs:132, 171): it completes once the channel has room, and waits
\* until then.
SendReady(q, cap) == Len(q) < cap

\* ------------------------------------------------- completion handles

\* completion_tx.send(out), or the drop of an unsent completion_tx (out =
\* Cancelled), for every call of S: the waiting caller gets the first value
\* only, and each use of the handle is counted.
Signal(S, out) ==
    /\ signalled' = [c \in Calls |-> IF c \in S THEN signalled[c] + 1 ELSE signalled[c]]
    /\ callOutcome' = [c \in Calls |->
            IF c \in S /\ signalled[c] = 0 THEN out[c] ELSE callOutcome[c]]
    /\ callStatus' = [c \in Calls |-> IF c \in S THEN "done" ELSE callStatus[c]]

\* The calls whose callers wait on a completion handle.
Waiting == {c \in Calls : callStatus[c] \in {"queued", "pending"}}

\* The calls whose handles a slot table holds.
Held(slots) == {slots[i] : i \in Ids} \ {NoCall}
\* The calls whose handles wait in the submit channel.
Queued(q) == {q[k].call : k \in 1 .. Len(q)}

\* ------------------------------------------------- application wrapper

\* CounterClient::connect up to its select, and Client::connect up to
\* connect_async_tls_with_config: the task is spawned and the upgrade
\* request carries the client's own version string.
AppConnect ==
    /\ appPc = "New"
    /\ cliPc = "Idle"
    /\ appPc' = "Waiting"
    /\ cliPc' = "Connecting"
    /\ hsReq' = [sent |-> TRUE, protocol |-> HlVersionString(clientMajor)]
    /\ UNCHANGED <<other, clientMajor, serverMajor, hsResp, nForeign, shutdown, nSubmitted, callVars,
                   connectResult, okSent, ctlSent, errSent, rpc_rx, active_rpc_calls,
                   cliState, sockVars, srvVars, stateVars>>

\* The select of CounterClient::connect: ok_rx first, then the control
\* channels; or the error.
AppSelect ==
    /\ appPc = "Waiting"
    /\ \/ okSent /\ ctlSent /\ appPc' = "Connected"
       \/ errSent /\ appPc' = "Failed"
    /\ UNCHANGED <<other, hsVars, shutdown, nSubmitted, callVars, cliVars, sockVars, srvVars,
                   stateVars>>

\* CounterClient::handle_rpc_call: the next call is put on the submit
\* channel; a full channel makes the caller wait.
Submit(internal) ==
    /\ appPc = "Connected"
    /\ cliPc # "Closed"
    /\ nSubmitted < MaxCalls
    /\ SendReady(rpc_rx, SubmitCap)
    /\ nSubmitted' = nSubmitted + 1
    /\ rpc_rx' = Append(rpc_rx, [call |-> nSubmitted + 1, internal |-> internal])
    /\ callStatus' = [callStatus EXCEPT ![nSubmitted + 1] = "queued"]
    /\ UNCHANGED <<other, hsVars, appPc, shutdown, callOutcome, signalled, callId, cliPc,
                   connectResult, okSent, ctlSent, errSent, active_rpc_calls, cliState,
                   sockVars, srvVars, stateVars>>

\* CounterClient::disconnect, also run by Drop: fires the shutdown oneshot once.
Disconnect ==
    /\ appPc = "Connected"
    /\ shutdown = "armed"
    /\ shutdown' = "fired"
    /\ UNCHANGED <<other, hsVars, appPc, nSubmitted, callVars, cliVars, sockVars, srvVars,
                   stateVars>>


\* ------------------------------------------------- client connection task

\* connect_async_tls_with_config fails before any upgrade response (TCP or
\* TLS error): the ? of client.rs:125 returns the error, which the spawned
\* task of CounterClient::connect forwards on error_tx.
ClientConnectError ==
    /\ cliPc = "Connecting"
    /\ hsResp.status = "none"
    /\ cliPc' = "Closed"
    /\ connectResult' = "ConnectError"
    /\ errSent' = TRUE
    /\ UNCHANGED <<other, hsVars, appVars, callVars, okSent, ctlSent, rpc_rx, active_rpc_calls,
                   cliState, sockVars, srvVars, stateVars>>

\* A check that only looks for the header's presence.
BadVersionAbsentOnly(protocol, mine) == protocol = NoHeader

\* The header check of client.rs:127-131.
BadVersion(protocol, mine) == protocol = NoHeader \/ protocol # mine

\* What Client::connect makes of an upgrade response (client.rs:125-131):
\* the WebSocket client handshake succeeds on 101 Switching Protocols only,
\* any other reply is the error the ? returns; then the echoed sub-label is
\* verified.
ConnectOutcome(resp, mine) ==
    IF resp.status # "SwitchingProtocols" THEN "ConnectError"
    ELSE IF BadVersion(resp.protocol, mine) THEN "HandshakeIncomplete"
    ELSE "Ready"

\* A connect that signals readiness as soon as the upgrade went through and
\* verifies the echoed sub-label afterwards.
ClientUpgradedOkFirst ==
    /\ cliPc = "Connecting"
    /\ hsResp.status # "none"
    /\ LET outcome == ConnectOutcome(hsResp, HlVersionString(clientMajor))
       IN  IF outcome = "Ready"
           THEN /\ okSent' = TRUE
                /\ ctlSent' = TRUE
                /\ cliPc' = "Running"
                /\ UNCHANGED <<connectResult, errSent, sockUp>>
           ELSE /\ okSent' = (outcome = "HandshakeIncomplete")
                /\ cliPc' = "Closed"
                /\ connectResult' = outcome
                /\ errSent' = TRUE
                /\ sockUp' = FALSE
                /\ UNCHANGED ctlSent
    /\ UNCHANGED <<other, hsVars, appVars, callVars, rpc_rx, active_rpc_calls, cliState, c2s, s2c,
                   srvVars, stateVars>>

\* Client::connect from the upgrade response to the loop (client.rs:125-139):
\* an error returns before ok_tx is used and is forwarded on error_tx by the
\* spawned task; otherwise ok_tx, then the control channels.
ClientUpgraded ==
    /\ cliPc = "Connecting"
    /\ hsResp.status # "none"
    /\ LET outcome == ConnectOutcome(hsResp, HlVersionString(clientMajor))
       IN  IF outcome = "Ready"
           THEN /\ okSent' = TRUE
                /\ ctlSent' = TRUE
                /\ cliPc' = "Running"
                /\ UNCHANGED <<connectResult, errSent, sockUp>>
           ELSE /\ cliPc' = "Closed"
                /\ connectResult' = outcome
                /\ errSent' = TRUE
                /\ sockUp' = FALSE
                /\ UNCHANGED <<okSent, ctlSent>>
    /\ UNCHANGED <<other, hsVars, appVars, callVars, rpc_rx, active_rpc_calls, cliState, c2s, s2c,
                   srvVars, stateVars>>

\* A search that hands out the highest free ID.
FindFreeIdHighest(slots) ==
    IF \E i \in Ids : slots[i] = NoCall
    THEN CHOOSE i \in Ids : slots[i] = NoCall /\ \A j \in Ids : slots[j] = NoCall => i >= j
    ELSE NumSlots

\* A search that only asks whether some slot is free and then hands out the first ID.
FindFreeIdAny(slots) ==
    IF \E i \in Ids : slots[i] = NoCall THEN 0 ELSE NumSlots

\* A search that falls back to the first ID when no slot is free.
FindFreeIdOrFirst(slots) ==
    IF \E i \in Ids : slots[i] = NoCall
    THEN CHOOSE i \in Ids : slots[i] = NoCall /\ \A j \in Ids : slots[j] = NoCall => i <= j
    ELSE 0

\* active_rpc_calls.iter().position(|x| x.is_none()): the lowest free ID,
\* NumSlots when every slot is taken.
FindFreeId(slots) ==
    IF \E i \in Ids : slots[i] = NoCall
    THEN CHOOSE i \in Ids : slots[i] = NoCall /\ \A j \in Ids : slots[j] = NoCall => i <= j
    ELSE NumSlots

\* active_rpc_calls[id] = Some(completion_tx): a handle already in the slot
\* would be dropped by the assignment.
Evicted(slots, id) == {slots[id]} \ {NoCall}

\* A failure path that has already parked the handle in the chosen slot.
SlotsOnErrorParked(slots, id, c) == [slots EXCEPT ![id] = c]

\* The slot table after a failed encode or a failed send: both continue
\* before the assignment of client.rs:206 is reached.
SlotsOnError(slots, id, c) == slots

\* The submit branch of the loop (client.rs:169-211).  encodes is the
\* outcome of rkyv::to_bytes.
ClientSubmitRecv(encodes) ==
    /\ cliPc = "Running"
    /\ rpc_rx # <<>>
    /\ LET item == Head(rpc_rx)
           c == item.call
           id == FindFreeId(active_rpc_calls)
       IN  /\ rpc_rx' = Tail(rpc_rx)
           /\ IF id = NumSlots
              THEN /\ Signal({c}, [x \in Calls |-> ErrOutput("TooManyCallsInFlight")])
                   /\ UNCHANGED <<active_rpc_calls, c2s, callId>>
              ELSE IF ~encodes
              THEN /\ Signal({c}, [x \in Calls |-> ErrOutput("BadInputBytes")])
                   /\ active_rpc_calls' = SlotsOnError(active_rpc_calls, id, c)
                   /\ UNCHANGED <<c2s, callId>>
              ELSE IF ~sockUp
              THEN /\ Signal({c}, [x \in Calls |-> ErrOutput("ClientNotConnected")])
                   /\ active_rpc_calls' = SlotsOnError(active_rpc_calls, id, c)
                   /\ UNCHANGED <<c2s, callId>>
              ELSE /\ c2s' = Append(c2s, RPCRequest(id, item.internal))
                   /\ active_rpc_calls' = [active_rpc_calls EXCEPT ![id] = c]
                   /\ callId' = [callId EXCEPT ![c] = id]
                   /\ signalled' = [x \in Calls |->
                          IF x \in Evicted(active_rpc_calls, id)
                          THEN signalled[x] + 1 ELSE signalled[x]]
                   /\ callOutcome' = [x \in Calls |->
                          IF x \in Evicted(active_rpc_calls, id) /\ signalled[x] = 0
                          THEN Cancelled ELSE callOutcome[x]]
                   /\ callStatus' = [x \in Calls |->
                          IF x = c THEN "pending"
                          ELSE IF x \in Evicted(active_rpc_calls, id) THEN "done"
                          ELSE callStatus[x]]
    /\ UNCHANGED <<other, hsVars, appVars, cliPc, connectResult, okSent, ctlSent, errSent,
                   cliState, sockUp, s2c, srvVars, stateVars>>

\* CounterState::apply_changes: each entry in turn; "counter" is decoded and
\* assigned, a decode error ends the loop with what was assigned so far, any
\* other field name is skipped.
RECURSIVE ApplyChanges(_, _)
ApplyChanges(state, changes) ==
    IF changes = <<>> THEN state
    ELSE LET field == Head(changes)[1]
             new_value == Head(changes)[2]
         IN  IF field = "counter"
             THEN IF DecodeOk(new_value)
                  THEN ApplyChanges(DecodeU32(new_value), Tail(changes))
                  ELSE state
             ELSE ApplyChanges(state, Tail(changes))

\* Whether apply_changes returns Ok(()): every "counter" entry decodes.
ApplyOk(changes) ==
    \A i \in 1..Len(changes) : changes[i][1] = "counter" => DecodeOk(changes[i][2])

\* The frames the socket branch only logs or skips: bytes that are no
\* ServerMessage, a NewEvent, a frame that is not binary, and a StateChange
\* whose apply_changes returns an error.
BadFrame(msg) ==
    \/ msg.type \in {"Garbage", "NewEvent", "Text"}
    \/ msg.type = "StateChange" /\ ~ApplyOk(msg.changes)

\* A loop that gives up on the first frame it cannot use.
AfterFrameStrict(msg) == IF BadFrame(msg) THEN "Closed" ELSE "Running"

\* Where the loop stands after the socket branch: no arm of it breaks or
\* returns, so the select! is entered again.
AfterFrame(msg) == "Running"

\* A take that empties the whole table.
TakeAllSlots(slots, id) == [i \in Ids |-> NoCall]

\* active_rpc_calls[id].take(): the slot table after a response for id.
TakeSlot(slots, id) == [slots EXCEPT ![id] = NoCall]

\* The socket branch of the loop (client.rs:213-248) for the next frame.
ClientSocketRecv ==
    /\ cliPc = "Running"
    /\ s2c # <<>>
    /\ LET msg == Head(s2c)
       IN  /\ s2c' = Tail(s2c)
           /\ cliPc' = AfterFrame(msg)
           /\ IF msg.type = "RPCResponse"
              THEN /\ active_rpc_calls' = TakeSlot(active_rpc_calls, msg.id)
                   /\ Signal(Evicted(active_rpc_calls, msg.id), [x \in Calls |-> msg.output])
                   /\ UNCHANGED cliState
              ELSE IF msg.type = "StateChange"
              THEN /\ cliState' = ApplyChanges(cliState, msg.changes)
                   /\ UNCHANGED <<active_rpc_calls, callStatus, callOutcome, signalled>>
              ELSE UNCHANGED <<active_rpc_calls, callStatus, callOutcome, signalled, cliState>>
    /\ UNCHANGED <<other, hsVars, appVars, callId, connectResult, okSent, ctlSent, errSent,
                   rpc_rx, sockUp, c2s, srvVars, stateVars>>

\* An exit that lets go of the slot table only, keeping the queued items alive.
DroppedAtExitSlotsOnly(slots, q) == Held(slots)

\* The handles the loop's locals hold when connect returns: dropped unsent.
DroppedAtExit(slots, q) == Held(slots) \cup Queued(q)

\* A loop that leaves only once no call is pending in a slot.
ShutdownReadyWhenDrained == shutdown = "fired" /\ Held(active_rpc_calls) = {}

\* _ = &mut shutdown of the select! (client.rs:250): ready once the sender
\* has sent or was dropped, whatever the slots hold.
ShutdownReady == shutdown = "fired"

\* The shutdown branch (client.rs:250-257): break, return Ok(()); the slot
\* table, the submit channel's receiver and the stream are dropped.
ClientShutdown ==
    /\ cliPc = "Running"
    /\ ShutdownReady
    /\ cliPc' = "Closed"
    /\ connectResult' = "Ok"
    /\ Signal(DroppedAtExit(active_rpc_calls, rpc_rx), [x \in Calls |-> Cancelled])
    /\ active_rpc_calls' = [i \in Ids |-> NoCall]
    /\ rpc_rx' = <<>>
    /\ sockUp' = FALSE
    /\ UNCHANGED <<other, hsVars, appVars, callId, okSent, ctlSent, errSent, cliState, c2s, s2c,
                   srvVars, stateVars>>


\* ------------------------------------------------- server connection task

\* The handshake callback (server.rs:139-156).  Both branches return
\* Ok(response): the first with the status set to BAD_REQUEST, the second
\* with the version appended as Sec-WebSocket-Protocol.
Callback(req_version, version) ==
    IF req_version = NoHeader \/ req_version # version
    THEN [result |-> "Ok", status |-> "BadRequest", protocol |-> NoHeader]
    ELSE [result |-> "Ok", status |-> "SwitchingProtocols", protocol |-> version]

\* accept_hdr_async(stream, callback) as matched at server.rs:158-164: the
\* handshake is rejected when the callback returns Err; a response returned
\* in Ok is written as the reply and the WebSocket stream is handed back.
AcceptHdr(cb) == IF cb.result = "Ok" THEN "Ok" ELSE "Err"

\* handle_connection from the spawn to the loop (server.rs:131-175).
ServerAccept ==
    /\ srvPc = "Accepted"
    /\ hsReq.sent
    /\ LET cb == Callback(hsReq.protocol, HlVersionString(serverMajor))
       IN  /\ hsResp' = [status |-> cb.status, protocol |-> cb.protocol]
           /\ IF AcceptHdr(cb) = "Ok"
              THEN srvPc' = "Running" /\ sockUp' = (cliPc # "Closed")
              ELSE srvPc' = "Closed" /\ UNCHANGED sockUp
    /\ UNCHANGED <<other, clientMajor, serverMajor, hsReq, nForeign, appVars, callVars, cliVars,
                   c2s, s2c, in_flight, srv_rpc_rx, state_change_rx, tasks, nSpawned,
                   nDispatched, nIgnored, panicked, stateVars>>

\* accept_hdr_async fails on the transport: the task returns (server.rs:160-163).
ServerAcceptError ==
    /\ srvPc = "Accepted"
    /\ hsReq.sent
    /\ srvPc' = "Closed"
    /\ UNCHANGED <<other, hsVars, appVars, callVars, cliVars, sockVars, in_flight, srv_rpc_rx,
                   state_change_rx, tasks, nSpawned, nDispatched, nIgnored, panicked, stateVars>>

\* A guard that never finds an ID busy.
NeverInFlight(busy, id) == FALSE

\* The duplicate-ID guard of server.rs:196-199.
AlreadyInFlight(busy, id) == busy[id]

\* tokio::spawn of the handler task (server.rs:203-213).
Spawned(id, internal, tid) ==
    [tid |-> tid, id |-> id, internal |-> internal, pc |-> "start",
     starting_state |-> 0, output |-> NoOutcome]

\* A loop that reads the socket only while no handler is running, as one
\* that awaits the handler in place would.
SocketBranchReadyWhenIdle == srvPc = "Running" /\ c2s # <<>> /\ tasks = {}

\* Some(msg) = ws_stream.next() of the select! (server.rs:177-179): the
\* branch is taken whenever a frame is there, whatever the spawned tasks do.
SocketBranchReady == srvPc = "Running" /\ c2s # <<>>

\* A panic that aborts the process: every connection task is gone with it.
AfterPanicAbort(o) == [o EXCEPT !.srvPc = "Panicked", !.sockUp = FALSE]

\* What a panic in one connection's task does to the other connection: the
\* task was started with tokio::spawn (server.rs:135), so the unwinding ends
\* that task alone and the runtime keeps polling the rest.
AfterPanic(o) == o

\* The socket branch of the server loop (server.rs:179-219) for the next frame.
ServerSocketRecv ==
    /\ SocketBranchReady
    /\ LET msg == Head(c2s)
       IN  /\ c2s' = Tail(c2s)
           /\ IF msg.type = "RPCRequest"
              THEN IF AlreadyInFlight(in_flight, msg.id)
                   THEN /\ nIgnored' = nIgnored + 1
                        /\ UNCHANGED <<srvPc, in_flight, tasks, nSpawned, sockUp, other>>
                   ELSE /\ in_flight' = [in_flight EXCEPT ![msg.id] = TRUE]
                        /\ tasks' = tasks \cup {Spawned(msg.id, msg.internal, nSpawned + 1)}
                        /\ nSpawned' = nSpawned + 1
                        /\ UNCHANGED <<srvPc, sockUp, nIgnored, other>>
              ELSE IF msg.type = "Garbage"
              THEN \* rkyv::from_bytes(&binary).unwrap() panics: the task and its
                   \* stream are gone
                   /\ srvPc' = "Panicked"
                   /\ sockUp' = FALSE
                   /\ other' = AfterPanic(other)
                   /\ UNCHANGED <<in_flight, tasks, nSpawned, nIgnored>>
              ELSE UNCHANGED <<srvPc, in_flight, tasks, nSpawned, nIgnored, sockUp, other>>
    /\ UNCHANGED <<hsVars, appVars, callVars, cliVars, s2c, srv_rpc_rx, state_change_rx,
                   nDispatched, panicked, stateVars>>

\* A loop that leaves the entry set when the response is taken.
KeepInFlight(busy, id) == busy

\* in_flight[id] = false of server.rs:228.
ClearInFlight(busy, id) == [busy EXCEPT ![id] = FALSE]

\* The response branch of the server loop (server.rs:221-238); a failed send
\* only ends the iteration.
ServerResponseRecv ==
    /\ srvPc = "Running"
    /\ srv_rpc_rx # <<>>
    /\ LET msg == Head(srv_rpc_rx)
       IN  /\ srv_rpc_rx' = Tail(srv_rpc_rx)
           /\ in_flight' = ClearInFlight(in_flight, msg.id)
           /\ s2c' = IF sockUp THEN Append(s2c, msg) ELSE s2c
           /\ nDispatched' = nDispatched + 1
    /\ UNCHANGED <<other, hsVars, appVars, callVars, cliVars, sockUp, c2s, srvPc, state_change_rx,
                   tasks, nSpawned, nIgnored, panicked, stateVars>>

\* The state-change branch of the server loop (server.rs:240-250).
ServerStateChangeRecv ==
    /\ srvPc = "Running"
    /\ state_change_rx # <<>>
    /\ LET item == Head(state_change_rx)
       IN  /\ state_change_rx' = Tail(state_change_rx)
           /\ s2c' = IF sockUp THEN Append(s2c, StateChange(item.changes, item.rel)) ELSE s2c
           /\ wireLog' = IF sockUp THEN Append(wireLog, item.rel) ELSE wireLog
    /\ UNCHANGED <<other, hsVars, appVars, callVars, cliVars, sockUp, c2s, srvPc, in_flight,
                   srv_rpc_rx, tasks, nSpawned, nDispatched, nIgnored, panicked, srvState, holder,
                   diffTasks, nReleased>>


\* ------------------------------------------------- handler tasks and state

\* A handler that takes any bytes for a call.
ValidInputAny(internal) == TRUE

\* The two decodes of CounterHandler::handle_rpc_call (main.rs:146-151):
\* the RpcCall itself, then the arguments of a method that takes any.
ValidInput(internal) ==
    /\ internal.method \in {"Increment", "Decrement", "Get"}
    /\ internal.method \in {"Increment", "Decrement"} => DecodeOk(internal.args)

Replace(t, new) == (tasks \ {t}) \cup {new}

\* handle_rpc_call on bytes that do not decode: Err(BadInputBytes), the
\* state is not touched.
HandlerBadInput(t) ==
    /\ t \in tasks
    /\ t.pc = "start"
    /\ ~ValidInput(t.internal)
    /\ tasks' = Replace(t, [t EXCEPT !.pc = "respond", !.output = ErrOutput("BadInputBytes")])
    /\ UNCHANGED <<other, hsVars, appVars, callVars, cliVars, sockVars, srvPc, in_flight,
                   srv_rpc_rx, state_change_rx, nSpawned, nDispatched, nIgnored, panicked, stateVars>>

\* CounterConnectionState::lock (main.rs:217-224): the mutex is taken and
\* the state cloned into starting_state.
HandlerLock(t) ==
    /\ t \in tasks
    /\ t.pc = "start"
    /\ ValidInput(t.internal)
    /\ holder = 0
    /\ holder' = t.tid
    /\ tasks' = Replace(t, [t EXCEPT !.pc = "locked", !.starting_state = srvState])
    /\ UNCHANGED <<other, hsVars, appVars, callVars, cliVars, sockVars, srvPc, in_flight,
                   srv_rpc_rx, state_change_rx, nSpawned, nDispatched, nIgnored, panicked, srvState, diffTasks,
                   nReleased, wireLog>>

\* A body that assigns the amount instead of adding it.
MethodEffectAssign(internal, counter) ==
    IF internal.method \in {"Increment", "Decrement"} THEN DecodeU32(internal.args)
    ELSE counter

\* The body of Counter::increment / decrement / get under the guard
\* (main.rs:174-191): the counter after the call, the arithmetic wrapping as
\* it does in a build without overflow checks.
MethodEffect(internal, counter) ==
    IF internal.method = "Increment" THEN WrapAdd(counter, DecodeU32(internal.args))
    ELSE IF internal.method = "Decrement" THEN WrapSub(counter, DecodeU32(internal.args))
    ELSE counter

\* state.counter += amount / -= amount leaves the range of u32
\* (main.rs:177, 184).
Overflows(internal, counter) ==
    \/ /\ internal.method = "Increment"
       /\ ULt(WrapAdd(counter, DecodeU32(internal.args)), counter)
    \/ /\ internal.method = "Decrement"
       /\ ULt(counter, DecodeU32(internal.args))

\* The arithmetic panics, as it does in a build with overflow checks: the
\* unwinding drops the StateGuard with the counter unchanged, so the diff is
\* empty and nothing is spawned (main.rs:244-258), and the parking_lot mutex
\* is unlocked; the spawned task ends without sending its RPCResponse
\* (server.rs:206-213).  Which of the two a build does is not fixed by the
\* source, so HandlerRelease stays enabled as well.
HandlerPanic(t) ==
    /\ t \in tasks
    /\ t.pc = "locked"
    /\ Overflows(t.internal, srvState)
    /\ tasks' = tasks \ {t}
    /\ holder' = 0
    /\ panicked' = panicked \cup {t.id}
    /\ UNCHANGED <<other, hsVars, appVars, callVars, cliVars, sockVars, srvPc, in_flight,
                   srv_rpc_rx, state_change_rx, nSpawned, nDispatched, nIgnored, srvState,
                   diffTasks, nReleased, wireLog>>

\* A drop that reports the counter whether or not it changed.
DiffAlways(counter, starting_counter) == << <<"counter", EncodeU32(counter)>> >>

\* The diff of StateGuard::drop (main.rs:244-253): one entry per field that
\* differs from the pre-image.
Diff(counter, starting_counter) ==
    IF counter # starting_counter THEN << <<"counter", EncodeU32(counter)>> >> ELSE <<>>

\* A drop that sends the changes itself and so needs room in the channel.
ReleaseReadyWhenRoom(q) == Len(q) < StateChangeCap

\* Whether StateGuard::drop can run to its end: it awaits nothing, the send
\* is left to the task it spawns (main.rs:260-266), so it always can.
ReleaseReady(q) == TRUE

\* The method body, its Ok(state.counter), and the drop of the guard
\* (main.rs:240-267): a non-empty diff is handed to a freshly spawned task,
\* then the mutex is released.
HandlerRelease(t) ==
    /\ t \in tasks
    /\ t.pc = "locked"
    /\ ReleaseReady(state_change_rx)
    /\ LET counter == MethodEffect(t.internal, srvState)
           changes == Diff(counter, t.starting_state)
       IN  /\ srvState' = counter
           /\ tasks' = Replace(t, [t EXCEPT !.pc = "respond",
                                            !.output = OkOutput(EncodeU32(counter))])
           /\ IF changes # <<>>
              THEN /\ diffTasks' = diffTasks \cup {[rel |-> nReleased + 1, changes |-> changes]}
                   /\ nReleased' = nReleased + 1
              ELSE UNCHANGED <<diffTasks, nReleased>>
           /\ holder' = 0
    /\ UNCHANGED <<other, hsVars, appVars, callVars, cliVars, sockVars, srvPc, in_flight,
                   srv_rpc_rx, state_change_rx, nSpawned, nDispatched, nIgnored, panicked, wireLog>>

\* Channels whose receivers were dropped before the loop began.
ReceiversDropped == FALSE

\* The receivers of the connection's channels live as long as its task.
ReceiversAlive == srvPc \in {"Accepted", "Running"}

\* tx.send(RPCResponse { id, output }).await of the spawned task
\* (server.rs:207-212): waits for room; with the receiver gone the send
\* fails and the task ends all the same.
HandlerRespond(t) ==
    /\ t \in tasks
    /\ t.pc = "respond"
    /\ IF ReceiversAlive
       THEN /\ SendReady(srv_rpc_rx, ResponseCap)
            /\ srv_rpc_rx' = Append(srv_rpc_rx, RPCResponse(t.id, t.output))
       ELSE UNCHANGED srv_rpc_rx
    /\ tasks' = tasks \ {t}
    /\ UNCHANGED <<other, hsVars, appVars, callVars, cliVars, sockVars, srvPc, in_flight,
                   state_change_rx, nSpawned, nDispatched, nIgnored, panicked, stateVars>>

\* channel.send(changes).await.unwrap() of the task spawned by the drop
\* (main.rs:262-265): waits for room; with the receiver gone the unwrap
\* panics in the detached task and the change is lost.
DiffSend(d) ==
    /\ d \in diffTasks
    /\ IF ReceiversAlive
       THEN /\ SendReady(state_change_rx, StateChangeCap)
            /\ state_change_rx' = Append(state_change_rx, d)
       ELSE UNCHANGED state_change_rx
    /\ diffTasks' = diffTasks \ {d}
    /\ UNCHANGED <<other, hsVars, appVars, callVars, cliVars, sockVars, srvPc, in_flight,
                   srv_rpc_rx, tasks, nSpawned, nDispatched, nIgnored, panicked, srvState, holder, nReleased,
                   wireLog>>

\* ------------------------------------------------------------ environment

\* The connection breaks: frames not yet read are lost, later sends fail.
NetworkFail ==
    /\ sockUp
    /\ sockUp' = FALSE
    /\ c2s' = <<>>
    /\ s2c' = <<>>
    /\ UNCHANGED <<other, hsVars, appVars, callVars, cliVars, srvVars, stateVars>>

\* The connection in view, as NewConnection lays it out.
InView ==
    [conn |-> 3 - other.conn,
     hsReq |-> hsReq, hsResp |-> hsResp, sockUp |-> sockUp, c2s |-> c2s, s2c |-> s2c,
     srvPc |-> srvPc, in_flight |-> in_flight, srv_rpc_rx |-> srv_rpc_rx,
     state_change_rx |-> state_change_rx, tasks |-> tasks, nSpawned |-> nSpawned,
     nDispatched |-> nDispatched, nIgnored |-> nIgnored, panicked |-> panicked,
     srvState |-> srvState, holder |-> holder, diffTasks |-> diffTasks,
     nReleased |-> nReleased, wireLog |-> wireLog]

\* One busy table for the whole server.
InFlightShared(own, foreign) == foreign

\* The busy table a connection task works on: in_flight is a local of the
\* task (server.rs:169), so it is the connection's own.
InFlightOf(own, foreign) == own

\* One counter for the whole server.
StateShared(own, foreign) == foreign

\* The state a connection's handler works on: the factory is called once per
\* connection (server.rs:133) and CounterHandler::new builds a new
\* CounterConnectionState each time (main.rs:139-143), so it is the
\* connection's own.
StateOf(own, foreign) == own

\* Server::run hands every accepted stream to a task of its own
\* (server.rs:118-135) and the runtime runs them in any order: the tasks of
\* the other connection get their turn.  Whatever a connection owns goes
\* out of view and comes back with it.
Turn ==
    /\ other' = [InView EXCEPT !.in_flight = InFlightOf(in_flight, other.in_flight),
                               !.srvState = StateOf(srvState, other.srvState)]
    /\ hsReq' = other.hsReq
    /\ hsResp' = other.hsResp
    /\ sockUp' = other.sockUp
    /\ c2s' = other.c2s
    /\ s2c' = other.s2c
    /\ srvPc' = other.srvPc
    /\ in_flight' = InFlightOf(other.in_flight, in_flight)
    /\ srv_rpc_rx' = other.srv_rpc_rx
    /\ state_change_rx' = other.state_change_rx
    /\ tasks' = other.tasks
    /\ nSpawned' = other.nSpawned
    /\ nDispatched' = other.nDispatched
    /\ nIgnored' = other.nIgnored
    /\ panicked' = other.panicked
    /\ srvState' = StateOf(other.srvState, srvState)
    /\ holder' = other.holder
    /\ diffTasks' = other.diffTasks
    /\ nReleased' = other.nReleased
    /\ wireLog' = other.wireLog
    /\ UNCHANGED <<clientMajor, serverMajor, nForeign, appVars, callVars, cliVars>>

\* ---------------------------------------------------------- specification

Next ==
    \/ AppConnect
    \/ AppSelect
    \/ \E internal \in Payloads : Submit(internal)
    \/ Disconnect
    \/ ClientConnectError
    \/ ClientUpgraded
    \/ \E encodes \in BOOLEAN : ClientSubmitRecv(encodes)
    \/ ClientSocketRecv
    \/ ClientShutdown
    \/ ServerAccept
    \/ ServerAcceptError
    \/ ServerSocketRecv
    \/ ServerResponseRecv
    \/ ServerStateChangeRecv
    \/ \E t \in tasks : HandlerBadInput(t)
    \/ \E t \in tasks : HandlerLock(t)
    \/ \E t \in tasks : HandlerRelease(t)
    \/ \E t \in tasks : HandlerRespond(t)
    \/ \E d \in diffTasks : DiffSend(d)
    \/ NetworkFail

Spec == Init /\ [][Next]_vars


\* ------------------------------------------------- a peer of another make

\* Any WebSocket client may connect to the server: it sends whatever
\* sub-label it likes, or none, and whatever frames it likes.
Protocols == {NoHeader} \cup {HlVersionString(m) : m \in Majors}

RawClientFrames ==
    {RPCRequest(i, internal) : i \in Ids, internal \in RawPayloads}
        \cup {[type |-> "Garbage"], [type |-> "Text"]}

RawUpgrade(protocol) ==
    /\ cliPc = "Idle"
    /\ ~hsReq.sent
    /\ hsReq' = [sent |-> TRUE, protocol |-> protocol]
    /\ UNCHANGED <<other, clientMajor, serverMajor, hsResp, nForeign, appVars, callVars, cliVars,
                   sockVars, srvVars, stateVars>>

RawClientSendWithin(frame, limit) ==
    /\ cliPc = "Idle"
    /\ sockUp
    /\ nForeign < limit
    /\ nForeign' = nForeign + 1
    /\ c2s' = Append(c2s, frame)
    /\ UNCHANGED <<other, clientMajor, serverMajor, hsReq, hsResp, appVars, callVars, cliVars,
                   sockUp, s2c, srvVars, stateVars>>

RawClientSend(frame) == RawClientSendWithin(frame, MaxForeign)

RawClientRecv ==
    /\ cliPc = "Idle"
    /\ s2c # <<>>
    /\ s2c' = Tail(s2c)
    /\ UNCHANGED <<other, hsVars, appVars, callVars, cliVars, sockUp, c2s, srvVars, stateVars>>

\* The client may be pointed at any WebSocket server: it answers the upgrade
\* with whatever status and sub-label it likes, and sends whatever frames it
\* likes.
RawServerFrames ==
    {RPCResponse(i, out) : i \in Ids, out \in {OkOutput(EncodeU32(1)), ErrOutput("BadInputBytes")}}
        \cup {StateChange(ch, 0) : ch \in {<< <<"counter", EncodeU32(1)>> >>,
                                           << <<"counter", <<>> >> >>,
                                           << <<"counter", EncodeU32(3)>>, <<"counter", <<>> >> >>,
                                           << <<"colour", EncodeU32(1)>>, <<"counter", EncodeU32(2)>> >>}}
        \cup {[type |-> "NewEvent"], [type |-> "Garbage"], [type |-> "Text"]}

RawAccept(status, protocol) ==
    /\ srvPc = "Accepted"
    /\ cliPc = "Connecting"
    /\ hsResp.status = "none"
    /\ hsResp' = [status |-> status, protocol |-> protocol]
    /\ sockUp' = TRUE
    /\ UNCHANGED <<other, clientMajor, serverMajor, hsReq, nForeign, appVars, callVars, cliVars,
                   c2s, s2c, srvVars, stateVars>>

RawServerSend(frame) ==
    /\ srvPc = "Accepted"
    /\ sockUp
    /\ nForeign < MaxForeign
    /\ nForeign' = nForeign + 1
    /\ s2c' = Append(s2c, frame)
    /\ UNCHANGED <<other, clientMajor, serverMajor, hsReq, hsResp, appVars, callVars, cliVars,
                   sockUp, c2s, srvVars, stateVars>>

RawServerRecv ==
    /\ srvPc = "Accepted"
    /\ c2s # <<>>
    /\ c2s' = Tail(c2s)
    /\ UNCHANGED <<other, hsVars, appVars, callVars, cliVars, sockUp, s2c, srvVars, stateVars>>

\* The server against any client.
NextRawClient ==
    \/ \E protocol \in Protocols : RawUpgrade(protocol)
    \/ \E frame \in RawClientFrames : RawClientSend(frame)
    \/ RawClientRecv
    \/ ServerAccept
    \/ ServerAcceptError
    \/ ServerSocketRecv
    \/ ServerResponseRecv
    \/ ServerStateChangeRecv
    \/ \E t \in tasks : HandlerBadInput(t)
    \/ \E t \in tasks : HandlerLock(t)
    \/ \E t \in tasks : HandlerRelease(t)
    \/ \E t \in tasks : HandlerPanic(t)
    \/ \E t \in tasks : HandlerRespond(t)
    \/ \E d \in diffTasks : DiffSend(d)
    \/ NetworkFail

\* HardLight's own client stays unused.
InitRawClient == Init /\ clientMajor = 0

SpecRawClient == InitRawClient /\ [][NextRawClient]_vars

\* The client against any server.
NextRawServer ==
    \/ AppConnect
    \/ AppSelect
    \/ \E internal \in Payloads : Submit(internal)
    \/ Disconnect
    \/ ClientConnectError
    \/ ClientUpgraded
    \/ \E encodes \in BOOLEAN : ClientSubmitRecv(encodes)
    \/ ClientSocketRecv
    \/ ClientShutdown
    \/ \E status \in {"SwitchingProtocols", "BadRequest"}, protocol \in Protocols :
            RawAccept(status, protocol)
    \/ \E frame \in RawServerFrames : RawServerSend(frame)
    \/ RawServerRecv
    \/ NetworkFail

\* HardLight's own server stays unused.
InitRawServer == Init /\ serverMajor = 0

SpecRawServer == InitRawServer /\ [][NextRawServer]_vars

\* The program's main (main.rs:41-73): tasks that call increment(1)
\* concurrently, and once every one of them has returned, a last get().
SubmitIncrement == Submit(RpcCallBytes("Increment", EncodeU32(1)))

\* let final_value = counter.get().await (main.rs:63-68), entered only after
\* every spawned task was awaited; the put on the submit channel is that of
\* CounterClient::handle_rpc_call.
SubmitFinalGet ==
    /\ appPc = "Connected"
    /\ cliPc # "Closed"
    /\ nSubmitted >= 1
    /\ nSubmitted < MaxCalls
    /\ Waiting = {}
    /\ SendReady(rpc_rx, SubmitCap)
    /\ appPc' = "Final"
    /\ nSubmitted' = nSubmitted + 1
    /\ rpc_rx' = Append(rpc_rx, [call |-> nSubmitted + 1, internal |-> RpcCallBytes("Get", <<>>)])
    /\ callStatus' = [callStatus EXCEPT ![nSubmitted + 1] = "queued"]
    /\ UNCHANGED <<other, hsVars, shutdown, callOutcome, signalled, callId, cliPc,
                   connectResult, okSent, ctlSent, errSent, active_rpc_calls, cliState,
                   sockVars, srvVars, stateVars>>

NextContention ==
    \/ AppConnect
    \/ AppSelect
    \/ SubmitIncrement
    \/ SubmitFinalGet
    \/ ClientConnectError
    \/ ClientUpgraded
    \/ \E encodes \in BOOLEAN : ClientSubmitRecv(encodes)
    \/ ClientSocketRecv
    \/ ServerAccept
    \/ ServerAcceptError
    \/ ServerSocketRecv
    \/ ServerResponseRecv
    \/ ServerStateChangeRecv
    \/ \E t \in tasks : HandlerLock(t)
    \/ \E t \in tasks : HandlerRelease(t)
    \/ \E t \in tasks : HandlerRespond(t)
    \/ \E d \in diffTasks : DiffSend(d)
    \/ NetworkFail

SpecContention == Init /\ [][NextContention]_vars

\* What the clients of the two connections send: increments on any ID, a
\* get, and bytes that are no ClientMessage.
TwoConnFrames ==
    {RPCRequest(i, RpcCallBytes("Increment", EncodeU32(1))) : i \in Ids}
        \cup {RPCRequest(0, RpcCallBytes("Get", <<>>)), [type |-> "Garbage"]}

\* The server with two connections, each from a client of any make.
NextTwoConns ==
    \/ \E protocol \in Protocols : RawUpgrade(protocol)
    \/ \E frame \in TwoConnFrames : RawClientSend(frame)
    \/ RawClientRecv
    \/ ServerAccept
    \/ ServerAcceptError
    \/ ServerSocketRecv
    \/ ServerResponseRecv
    \/ ServerStateChangeRecv
    \/ \E t \in tasks : HandlerLock(t)
    \/ \E t \in tasks : HandlerRelease(t)
    \/ \E t \in tasks : HandlerRespond(t)
    \/ \E d \in diffTasks : DiffSend(d)
    \/ NetworkFail
    \/ Turn

SpecTwoConns == InitRawClient /\ [][NextTwoConns]_vars

\* A client that sends increments on any ID, and in the end bytes that are
\* no ClientMessage.
BurstFrames ==
    {RPCRequest(i, RpcCallBytes("Increment", EncodeU32(1))) : i \in Ids}
        \cup {[type |-> "Garbage"]}

\* The server against that client.
NextBurst ==
    \/ \E protocol \in Protocols : RawUpgrade(protocol)
    \/ \E frame \in BurstFrames : RawClientSendWithin(frame, MaxBurst)
    \/ RawClientRecv
    \/ ServerAccept
    \/ ServerAcceptError
    \/ ServerSocketRecv
    \/ ServerResponseRecv
    \/ ServerStateChangeRecv
    \/ \E t \in tasks : HandlerLock(t)
    \/ \E t \in tasks : HandlerRelease(t)
    \/ \E t \in tasks : HandlerRespond(t)
    \/ \E d \in diffTasks : DiffSend(d)
    \/ NetworkFail

SpecBurst == InitRawClient /\ [][NextBurst]_vars

\* The program's calls, with the client free to disconnect at any time.
NextQueues ==
    \/ AppConnect
    \/ AppSelect
    \/ SubmitIncrement
    \/ Disconnect
    \/ ClientUpgraded
    \/ \E encodes \in BOOLEAN : ClientSubmitRecv(encodes)
    \/ ClientSocketRecv
    \/ ClientShutdown
    \/ ServerAccept
    \/ ServerSocketRecv
    \/ ServerResponseRecv
    \/ ServerStateChangeRecv
    \/ \E t \in tasks : HandlerLock(t)
    \/ \E t \in tasks : HandlerRelease(t)
    \/ \E t \in tasks : HandlerRespond(t)
    \/ \E d \in diffTasks : DiffSend(d)
    \/ NetworkFail

\* Client and server of the same build.
InitQueues == Init /\ clientMajor = 0 /\ serverMajor = 0

\* The three receiving branches are polled on every iteration of their
\* select! (client.rs:167-169, server.rs:177, 221, 240) and the runtime polls
\* every spawned task that can make progress: a receive or a send that
\* stays possible is made.
SpecQueues ==
    /\ InitQueues /\ [][NextQueues]_vars
    /\ WF_vars(\E encodes \in BOOLEAN : ClientSubmitRecv(encodes))
    /\ WF_vars(ServerResponseRecv)
    /\ WF_vars(ServerStateChangeRecv)
    /\ WF_vars(\E d \in diffTasks : DiffSend(d))

\* HardLight's client and server of the same build over a transport that
\* loses nothing, the application never disconnecting.
NextProgress ==
    \/ AppConnect
    \/ AppSelect
    \/ \E internal \in Payloads : Submit(internal)
    \/ ClientUpgraded
    \/ \E encodes \in BOOLEAN : ClientSubmitRecv(encodes)
    \/ ClientSocketRecv
    \/ ServerAccept
    \/ ServerSocketRecv
    \/ ServerResponseRecv
    \/ ServerStateChangeRecv
    \/ \E t \in tasks : HandlerBadInput(t)
    \/ \E t \in tasks : HandlerLock(t)
    \/ \E t \in tasks : HandlerRelease(t)
    \/ \E t \in tasks : HandlerRespond(t)
    \/ \E d \in diffTasks : DiffSend(d)

\* Both loops poll each of their select! branches on every iteration
\* (client.rs:167, server.rs:177) and the runtime polls every spawned task
\* that can go on (server.rs:206, main.rs:263): a step that stays possible
\* is taken.
SpecProgress ==
    /\ InitQueues /\ [][NextProgress]_vars
    /\ WF_vars(\E encodes \in BOOLEAN : ClientSubmitRecv(encodes))
    /\ WF_vars(ClientSocketRecv)
    /\ WF_vars(ServerSocketRecv)
    /\ WF_vars(ServerResponseRecv)
    /\ WF_vars(ServerStateChangeRecv)
    /\ WF_vars(\E t \in tasks : HandlerBadInput(t))
    /\ WF_vars(\E t \in tasks : HandlerLock(t))
    /\ WF_vars(\E t \in tasks : HandlerRelease(t))
    /\ WF_vars(\E t \in tasks : HandlerRespond(t))
    /\ WF_vars(\E d \in diffTasks : DiffSend(d))

\* select! polls every branch on each iteration, starting at a random one
\* (client.rs:167): a shutdown receiver that has fired stays ready, so the
\* loop cannot pass it over forever.
SpecRawServerFair == SpecRawServer /\ WF_vars(ClientShutdown)


\* =================================================================== claims

RpcErrors ==
    {"BadInputBytes", "BadOutputBytes", "TooManyCallsInFlight", "ClientNotConnected",
     "StatePoisoned"}

\* A call whose request was sent and whose completion handle sits in a slot.
Awaiting(c) == callStatus[c] = "pending"

C1_DistinctIds ==
    \A c1, c2 \in Calls :
        (c1 # c2 /\ Awaiting(c1) /\ Awaiting(c2)) => callId[c1] # callId[c2]

C1_SlotWasFree ==
    LET n == Len(c2s')
    IN  (n = Len(c2s) + 1 /\ c2s'[n].type = "RPCRequest")
            => active_rpc_calls[c2s'[n].id] = NoCall

\* C1: every RpcRequest the client sends carries an ID whose slot was free
\* when it was sent, and no two calls that await a response at the same time
\* share an ID.
C1_IdUniqueness == []C1_DistinctIds /\ [][C1_SlotWasFree]_vars

\* Two calls await their responses at once, on different IDs.
C1_Witness ==
    \E c1, c2 \in Calls :
        c1 # c2 /\ Awaiting(c1) /\ Awaiting(c2) /\ callId[c1] # callId[c2]

AllSlotsPending(slots) == \A i \in Ids : slots[i] # NoCall

\* C3: when every slot holds a pending handle, the next submission taken
\* from the submit channel is answered on its own handle with
\* TooManyCallsInFlight, no RpcRequest is sent, and no slot changes.
C3_Overflow ==
    [][(/\ cliPc = "Running" /\ cliPc' = "Running"
        /\ rpc_rx # <<>> /\ rpc_rx' = Tail(rpc_rx)
        /\ AllSlotsPending(active_rpc_calls))
       => (/\ callOutcome'[Head(rpc_rx).call] = ErrOutput("TooManyCallsInFlight")
           /\ signalled'[Head(rpc_rx).call] = 1
           /\ c2s' = c2s
           /\ active_rpc_calls' = active_rpc_calls
           /\ \A c \in Held(active_rpc_calls) :
                 signalled'[c] = 0 /\ callStatus'[c] = "pending")]_vars

\* A call was refused with TooManyCallsInFlight and the slots are all still
\* held by the earlier calls.
C3_Witness ==
    /\ AllSlotsPending(active_rpc_calls)
    /\ \E c \in Calls :
          /\ callOutcome[c] = ErrOutput("TooManyCallsInFlight")
          /\ \A i \in Ids : active_rpc_calls[i] < c /\ Awaiting(active_rpc_calls[i])


\* The upgrade request does not carry the server's own sub-label.
Refused == hsReq.sent /\ BadVersion(hsReq.protocol, HlVersionString(serverMajor))

\* C4: the server accepts the upgrade only for its own hl/<major> and then
\* echoes it; a request with a missing or different sub-label is answered
\* with bad-request, its connection never reaches Running, and no request
\* of it is processed and no handler invoked.
C4_VersionGate ==
    /\ hsResp.status = "SwitchingProtocols" =>
          /\ hsReq.protocol = HlVersionString(serverMajor)
          /\ hsResp.protocol = hsReq.protocol
    /\ (Refused /\ hsResp.status # "none") => hsResp.status = "BadRequest"
    /\ Refused => (srvPc # "Running" /\ nSpawned = 0 /\ tasks = {})

\* The part of C4 about frames alone: no handler runs for a refused upgrade.
C4_NoHandlerWhenRefused == Refused => nSpawned = 0

RequestSent == \E c \in Calls : callId[c] # NumSlots

ConnectFailed == connectResult \in {"ConnectError", "HandshakeIncomplete"}

\* C5: readiness is signalled and the submit channel published only after an
\* upgrade whose echoed sub-label equals the one the client sent; with an
\* absent or different echo connect fails with handshake-incomplete, and
\* neither readiness, nor the submit channel, nor any RpcRequest follows.
C5_ReadinessGating ==
    /\ (okSent \/ ctlSent \/ appPc = "Connected" \/ RequestSent \/ cliPc = "Running") =>
          /\ hsResp.status = "SwitchingProtocols"
          /\ hsResp.protocol = HlVersionString(clientMajor)
    /\ ctlSent => okSent
    /\ (/\ cliPc = "Closed"
        /\ hsResp.status = "SwitchingProtocols"
        /\ hsResp.protocol # HlVersionString(clientMajor)) =>
          /\ connectResult = "HandshakeIncomplete"
          /\ errSent /\ ~okSent /\ ~ctlSent /\ ~RequestSent /\ c2s = <<>>

\* The upgrade went through with another version's sub-label echoed, and
\* connect has failed.
C5_Witness ==
    /\ hsResp.status = "SwitchingProtocols"
    /\ hsResp.protocol \notin {NoHeader, HlVersionString(clientMajor)}
    /\ connectResult = "HandshakeIncomplete"
    /\ appPc = "Failed"

\* C6: once the readiness signal is sent, connect returns no error, whatever
\* happens later; the application never sees both the signal and an error.
C6_NoErrorAfterReady ==
    /\ okSent => (~errSent /\ ~ConnectFailed)
    /\ (okSent /\ cliPc = "Closed") => connectResult = "Ok"
    /\ appPc = "Connected" => ~errSent
    /\ appPc = "Failed" => ~okSent

\* Readiness was signalled, a send failed on the broken socket, the shutdown
\* fired, and connect has returned Ok.
C6_Witness ==
    /\ okSent
    /\ cliPc = "Closed"
    /\ connectResult = "Ok"
    /\ \E c \in Calls : callOutcome[c] = ErrOutput("ClientNotConnected")
    /\ \E c \in Calls : callOutcome[c] = Cancelled

\* C7: the StateChange envelopes go onto the wire in the order in which
\* their guards were released.
C7_DiffOrdering ==
    \A i, j \in 1 .. Len(wireLog) : i < j => wireLog[i] < wireLog[j]

\* The task that holds the guard.
Holder == CHOOSE t \in tasks : t.tid = holder

C8_NonEmptyLists ==
    /\ \A d \in diffTasks : d.changes # <<>> /\ d.rel <= nReleased
    /\ \A d1, d2 \in diffTasks : d1.rel = d2.rel => d1 = d2
    /\ \A k \in 1 .. Len(state_change_rx) :
          /\ state_change_rx[k].changes # <<>>
          /\ state_change_rx[k].rel <= nReleased
          /\ \A d \in diffTasks : d.rel # state_change_rx[k].rel
          /\ \A m \in 1 .. Len(state_change_rx) :
                state_change_rx[k].rel = state_change_rx[m].rel => k = m

C8_Release ==
    (holder # 0 /\ holder' = 0) =>
        IF srvState' = Holder.starting_state
        THEN diffTasks' = diffTasks /\ nReleased' = nReleased
        ELSE /\ nReleased' = nReleased + 1
             /\ \E d \in diffTasks' :
                   /\ d \notin diffTasks
                   /\ diffTasks' = diffTasks \cup {d}
                   /\ d.changes = << <<"counter", EncodeU32(srvState')>> >>

\* C8: the release of a guard whose state equals the pre-image hands over no
\* change list; the release of a guard whose state differs hands over exactly
\* one list, holding exactly the changed field with its new value; no list
\* is empty and none is enqueued twice.
C8_DiffMinimality == []C8_NonEmptyLists /\ [][C8_Release]_vars

\* An increment by zero has released its guard after an increment that
\* changed the counter: one change list exists, not two.
C8_Witness ==
    /\ nReleased = 1
    /\ srvState > 0
    /\ \E t \in tasks :
          /\ t.pc = "respond"
          /\ t.internal = RpcCallBytes("Increment", EncodeU32(0))
          /\ t.starting_state = srvState
          /\ t.output = OkOutput(EncodeU32(srvState))

\* Responses for id waiting in the response channel.
QueuedFor(q, id) == Cardinality({k \in 1 .. Len(q) : q[k].id = id})

C9_OnePerId ==
    /\ \A id \in Ids : Cardinality({t \in tasks : t.id = id}) <= 1
    /\ srvPc = "Running" =>
          /\ \A id \in Ids :
                Cardinality({t \in tasks : t.id = id}) + QueuedFor(srv_rpc_rx, id)
                    + (IF id \in panicked THEN 1 ELSE 0)
                    = IF in_flight[id] THEN 1 ELSE 0
          /\ nSpawned = Cardinality(tasks) + Len(srv_rpc_rx) + nDispatched
                            + Cardinality(panicked)

C9_DuplicateIgnored ==
    (/\ srvPc = "Running" /\ c2s # <<>> /\ c2s' = Tail(c2s)
     /\ Head(c2s).type = "RPCRequest" /\ in_flight[Head(c2s).id])
    => (/\ tasks' = tasks /\ in_flight' = in_flight /\ nSpawned' = nSpawned
        /\ srv_rpc_rx' = srv_rpc_rx /\ srvPc' = srvPc)

C10_Independence ==
    (srvPc = "Running" /\ c2s # <<>> /\ tasks # {}) => ENABLED ServerSocketRecv

\* A later call has its response while an earlier call on another ID still
\* waits for its own, its handler not yet finished.
C10_Witness ==
    \E c1, c2 \in Calls :
        /\ c1 < c2
        /\ Awaiting(c1)
        /\ callId[c1] # callId[c2]
        /\ callOutcome[c2].tag = "Ok"
        /\ \E t \in tasks : t.id = callId[c1] /\ t.pc # "respond"

\* The loop's exit cancels every waiting call and answers none.
C11_ExitCancels ==
    (cliPc = "Running" /\ cliPc' = "Closed") =>
        \A c \in Calls :
            IF c \in Waiting
            THEN callOutcome'[c] = Cancelled /\ signalled'[c] = 1 /\ callStatus'[c] = "done"
            ELSE callOutcome'[c] = callOutcome[c] /\ signalled'[c] = signalled[c]

\* After the exit nothing is delivered and nothing applied.
C11_NothingAfterExit ==
    cliPc = "Closed" =>
        /\ callOutcome' = callOutcome
        /\ signalled' = signalled
        /\ active_rpc_calls' = active_rpc_calls
        /\ cliState' = cliState
        /\ cliPc' = "Closed"

\* C11: once the shutdown signal is fired the client loop eventually exits;
\* the exit answers no pending handle, every caller waiting on a slot or in
\* the submit channel observes cancellation, and a response that arrives
\* afterwards is delivered to no one.
C11_ShutdownCancellation ==
    /\ (shutdown = "fired") ~> (cliPc = "Closed")
    /\ [][C11_ExitCancels]_vars
    /\ [][C11_NothingAfterExit]_vars
    /\ [](cliPc = "Closed" => Waiting = {})

\* The loop has exited with one call cancelled in its slot, one cancelled in
\* the submit channel, and the response for the first still unread.
C11_Witness ==
    /\ cliPc = "Closed"
    /\ shutdown = "fired"
    /\ \E c, d \in Calls :
          /\ callOutcome[c] = Cancelled /\ callId[c] # NumSlots
          /\ callOutcome[d] = Cancelled /\ callId[d] = NumSlots
          /\ \E k \in 1 .. Len(s2c) : s2c[k].type = "RPCResponse" /\ s2c[k].id = callId[c]

\* The increments that returned Ok before the last get was issued.
CompletedIncrements == {c \in Calls : c < nSubmitted /\ callOutcome[c].tag = "Ok"}

\* C12: a get() issued after every concurrent increment(1) has returned
\* yields the initial value, zero on a fresh connection, plus the number of
\* increments that returned Ok, whatever the interleaving of the handler
\* tasks; and each Ok increment returned a distinct value.
C12_NoLostUpdates ==
    /\ (appPc = "Final" /\ callOutcome[nSubmitted].tag = "Ok") =>
          /\ DecodeOk(callOutcome[nSubmitted].bytes)
          /\ DecodeU32(callOutcome[nSubmitted].bytes) = Cardinality(CompletedIncrements)
          /\ srvState = Cardinality(CompletedIncrements)
    /\ appPc = "Connected" =>
          \A c, d \in Calls :
              (c # d /\ callOutcome[c].tag = "Ok" /\ callOutcome[d].tag = "Ok")
                  => callOutcome[c].bytes # callOutcome[d].bytes

\* Two increments were pending at once, on IDs 0 and 1, and the get that
\* followed them returned 2.
C12_Witness ==
    /\ appPc = "Final"
    /\ nSubmitted = 3
    /\ callId[1] = 0 /\ callId[2] = 1
    /\ callOutcome[3] = OkOutput(EncodeU32(2))

\* One iteration of the client loop, whichever branch it takes.
ClientStep ==
    \/ \E encodes \in BOOLEAN : ClientSubmitRecv(encodes)
    \/ ClientSocketRecv
    \/ ClientShutdown

\* A write to the socket has failed in this step.
WriteFailed ==
    \E c \in Calls :
        /\ callOutcome[c] # ErrOutput("ClientNotConnected")
        /\ callOutcome'[c] = ErrOutput("ClientNotConnected")

\* The step in which a write fails ends the loop and leaves no caller waiting.
C13_WriteFailureExits ==
    WriteFailed => (cliPc' = "Closed" /\ Waiting' = {})

\* A running loop whose socket is closed and holds nothing more to read is
\* not left standing with callers waiting on it: it has a step to take.
C13_ClosedSocketExits ==
    (cliPc = "Running" /\ ~sockUp /\ s2c = <<>> /\ Waiting # {}) => ENABLED ClientStep

\* C13: when the socket is closed or a write fails, the client loop exits
\* and every waiting caller observes cancellation.
C13_TerminalErrors == []C13_ClosedSocketExits /\ [][C13_WriteFailureExits]_vars

\* A step of the server connection task or of a task it has spawned.
ServerStep ==
    \/ ServerSocketRecv
    \/ ServerResponseRecv
    \/ ServerStateChangeRecv
    \/ \E t \in tasks : HandlerBadInput(t) \/ HandlerLock(t) \/ HandlerRelease(t)
                            \/ HandlerPanic(t) \/ HandlerRespond(t)
    \/ \E d \in diffTasks : DiffSend(d)

\* A response or a change list was taken from its channel while the socket
\* was down, so its send failed: the connection task runs on.
C14_SendErrorKeepsRunning ==
    (/\ srvPc = "Running" /\ ~sockUp
     /\ \/ srv_rpc_rx # <<>> /\ srv_rpc_rx' = Tail(srv_rpc_rx)
        \/ state_change_rx # <<>> /\ state_change_rx' = Tail(state_change_rx))
    => srvPc' = "Running"

\* A connection task whose socket is closed does not stay in Running with
\* nothing left to do: while it is Running some step of it is enabled.
C14_ClosedSocketLeaves ==
    (/\ srvPc = "Running" /\ hsResp.status = "SwitchingProtocols"
     /\ ~sockUp /\ c2s = <<>>) => ENABLED ServerStep

\* C14: send errors do not terminate a Running server connection, and once
\* the client's socket is closed the connection task leaves its loop and
\* reaches Closed.
C14_ServerTermination == []C14_ClosedSocketLeaves /\ [][C14_SendErrorKeepsRunning]_vars

\* After a handler has panicked under the guard no lock() hands out a guard.
C15_NoGuardAfterPanic ==
    (panicked # {} /\ holder = 0) => holder' = 0

\* After a handler has panicked under the guard every response the
\* connection produces for a call with a valid payload is StatePoisoned.
C15_PoisonedReported ==
    panicked # {} =>
        \A t \in tasks :
            (t.pc = "start" /\ ValidInput(t.internal)) =>
                \A u \in tasks' : (u.tid = t.tid /\ u.pc # "start") =>
                    (u.pc = "respond" /\ u.output = ErrOutput("StatePoisoned"))

\* C15: once a handler has panicked while holding the state guard, every
\* later lock() on the connection's state reports StatePoisoned, and the
\* handler returns it as the error of its call.
C15_StatePoisoned == [][C15_NoGuardAfterPanic /\ C15_PoisonedReported]_vars

\* Every call has completed, nothing was lost on the way, and every
\* StateChange the server emitted has been delivered and applied.
AllDelivered ==
    /\ cliPc = "Running" /\ srvPc = "Running" /\ sockUp
    /\ nSubmitted > 0 /\ Waiting = {}
    /\ rpc_rx = <<>> /\ c2s = <<>> /\ s2c = <<>>
    /\ tasks = {} /\ srv_rpc_rx = <<>> /\ state_change_rx = <<>> /\ diffTasks = {}

\* C16: once all calls have completed and every StateChange envelope has
\* been delivered and applied in wire order, the client's replica of the
\* counter equals the server's counter.
C16_ReplicaConvergence == AllDelivered => cliState = srvState

\* Slot i goes from free to pending in this step.
Taken(i) == active_rpc_calls[i] = NoCall /\ active_rpc_calls'[i] # NoCall
\* Slot i goes from pending to free in this step.
Freed(i) == active_rpc_calls[i] # NoCall /\ active_rpc_calls'[i] = NoCall

C17_SlotSteps ==
    \A i \in Ids :
        /\ Taken(i) =>
              /\ \A j \in Ids : j < i => active_rpc_calls[j] # NoCall
              /\ \A j \in Ids \ {i} : active_rpc_calls'[j] = active_rpc_calls[j]
              /\ rpc_rx # <<>>
              /\ active_rpc_calls'[i] = Head(rpc_rx).call
              /\ callId'[Head(rpc_rx).call] = i
              /\ c2s' = Append(c2s, RPCRequest(i, Head(rpc_rx).internal))
        /\ Freed(i) =>
              \/ /\ s2c # <<>>
                 /\ Head(s2c).type = "RPCResponse" /\ Head(s2c).id = i
                 /\ s2c' = Tail(s2c)
                 /\ \A j \in Ids \ {i} : active_rpc_calls'[j] = active_rpc_calls[j]
              \/ cliPc = "Running" /\ cliPc' = "Closed"

\* C17: an accepted submission gets the lowest ID whose slot is free; a slot
\* becomes pending only in the step that sends its request and free only in
\* the step that receives the response for its ID (or when the loop ends),
\* and a freed ID is handed out again.
C17_LowestFreeReuse == [][C17_SlotSteps]_vars

\* ID 0 was used by the first call, freed by its response and handed to the
\* third call while the second call still holds ID 1.
C17_Witness ==
    /\ callOutcome[1].tag = "Ok" /\ callId[1] = 0
    /\ callStatus[2] = "pending" /\ callId[2] = 1 /\ active_rpc_calls[1] = 2
    /\ callStatus[3] = "pending" /\ callId[3] = 0 /\ active_rpc_calls[0] = 3

\* The loop takes the next submission in this step.
TakesSubmission == cliPc = "Running" /\ cliPc' = "Running" /\ rpc_rx # <<>> /\ rpc_rx' = Tail(rpc_rx)

C18_FailedSubmission ==
    TakesSubmission =>
        LET c == Head(rpc_rx).call
        IN  /\ (FindFreeId(active_rpc_calls) # NumSlots /\ ~sockUp) =>
                  callOutcome'[c] \in {ErrOutput("ClientNotConnected"), ErrOutput("BadInputBytes")}
            /\ callOutcome'[c] = ErrOutput("ClientNotConnected") =>
                  (~sockUp /\ FindFreeId(active_rpc_calls) # NumSlots)
            /\ callOutcome'[c] \in {ErrOutput("ClientNotConnected"), ErrOutput("BadInputBytes")} =>
                  /\ active_rpc_calls' = active_rpc_calls
                  /\ c2s' = c2s
                  /\ callId'[c] = NumSlots
                  /\ signalled'[c] = 1 /\ callStatus'[c] = "done"
                  /\ \A d \in Calls \ {c} :
                        /\ callOutcome'[d] = callOutcome[d]
                        /\ signalled'[d] = signalled[d]
                        /\ callStatus'[d] = callStatus[d]

\* C18: a submission whose send fails is answered ClientNotConnected, one
\* whose encoding fails BadInputBytes; in both cases the chosen slot stays
\* free, no other slot and no other call is touched, and nothing is sent.
C18_SendFailure == [][C18_FailedSubmission]_vars

\* With one call still pending in its slot, a second got BadInputBytes and a
\* third ClientNotConnected, and neither took a slot.
C18_Witness ==
    /\ cliPc = "Running"
    /\ \E c, d, e \in Calls :
          /\ callOutcome[c] = ErrOutput("ClientNotConnected") /\ callId[c] = NumSlots
          /\ callOutcome[d] = ErrOutput("BadInputBytes") /\ callId[d] = NumSlots
          /\ callStatus[e] = "pending" /\ Held(active_rpc_calls) = {e}

\* The loop reads the next frame from the socket in this step.
ReadsFrame ==
    /\ cliPc = "Running" /\ cliPc' = "Running"
    /\ s2c # <<>> /\ s2c' = Tail(s2c) /\ sockUp' = sockUp

C19_ResponseFrame ==
    (ReadsFrame /\ Head(s2c).type = "RPCResponse") =>
        LET id == Head(s2c).id
            c == active_rpc_calls[id]
        IN  IF c # NoCall
            THEN /\ callOutcome'[c] = Head(s2c).output
                 /\ signalled[c] = 0 /\ signalled'[c] = 1
                 /\ callStatus'[c] = "done"
                 /\ active_rpc_calls'[id] = NoCall
                 /\ \A j \in Ids \ {id} : active_rpc_calls'[j] = active_rpc_calls[j]
                 /\ \A d \in Calls \ {c} :
                       /\ callOutcome'[d] = callOutcome[d]
                       /\ signalled'[d] = signalled[d]
                       /\ callStatus'[d] = callStatus[d]
                 /\ cliState' = cliState
            ELSE /\ active_rpc_calls' = active_rpc_calls
                 /\ callOutcome' = callOutcome
                 /\ signalled' = signalled
                 /\ callStatus' = callStatus
                 /\ cliState' = cliState

\* C19: an RpcResponse for a pending slot delivers its result to that
\* slot's handle alone and frees that slot alone; an RpcResponse for a free
\* slot delivers nothing and changes neither the slot table nor the replica.
C19_ResponseDelivery == [][C19_ResponseFrame]_vars

\* The response for ID 0 was delivered to the first call and freed its slot,
\* the second call still holds ID 1, and a second response for ID 0, now
\* free, is next on the socket.
C19_Witness ==
    /\ cliPc = "Running"
    /\ callId[1] = 0 /\ callOutcome[1] = OkOutput(EncodeU32(1))
    /\ active_rpc_calls[0] = NoCall
    /\ callId[2] = 1 /\ active_rpc_calls[1] = 2
    /\ s2c # <<>> /\ Head(s2c).type = "RPCResponse" /\ Head(s2c).id = 0

\* A step in which the loop takes a frame it cannot use off the socket.
C20_BadFrameStep ==
    (cliPc = "Running" /\ s2c # <<>> /\ s2c' = Tail(s2c) /\ sockUp' = sockUp
        /\ BadFrame(Head(s2c))) =>
        /\ cliPc' = "Running"
        /\ active_rpc_calls' = active_rpc_calls
        /\ callOutcome' = callOutcome
        /\ signalled' = signalled
        /\ callStatus' = callStatus

\* The running loop reads whatever the socket or the submit channel holds.
C20_StillProcessing ==
    cliPc = "Running" =>
        /\ (s2c # <<>> => ENABLED ClientSocketRecv)
        /\ (rpc_rx # <<>> => \E encodeOk \in BOOLEAN : ENABLED ClientSubmitRecv(encodeOk))

\* C20: an undecodable binary frame, a NewEvent, a non-binary frame and a
\* StateChange whose application fails leave the slot table unchanged and the
\* client loop running, and the loop goes on to read the responses and the
\* submissions that follow.
C20_BadFrameTolerance == [][C20_BadFrameStep]_vars /\ []C20_StillProcessing

\* A StateChange whose second entry does not decode was read (its first entry
\* is in the replica); the first call still holds ID 0, its response is next
\* on the socket and another submission waits in the channel.
C20_Witness ==
    /\ cliPc = "Running"
    /\ cliState = 3
    /\ active_rpc_calls[0] = 1
    /\ s2c # <<>> /\ Head(s2c).type = "RPCResponse" /\ Head(s2c).id = 0
    /\ rpc_rx # <<>>

\* The connection loop reads an RpcRequest off the socket in this step.
AcceptsRequest(id) ==
    /\ srvPc = "Running" /\ c2s # <<>> /\ c2s' = Tail(c2s) /\ sockUp' = sockUp
    /\ Head(c2s).type = "RPCRequest" /\ Head(c2s).id = id

\* The connection loop takes a response for id from the response channel.
TakesResponse(id) ==
    /\ srvPc = "Running" /\ srv_rpc_rx # <<>> /\ srv_rpc_rx' = Tail(srv_rpc_rx)
    /\ Head(srv_rpc_rx).id = id

\* busy[id] is set by the step that accepts a request for an idle id and
\* spawns its handler, and by no other step.
C21_SetOnAccept ==
    \A id \in Ids :
        /\ (~in_flight[id] /\ in_flight'[id]) => AcceptsRequest(id)
        /\ (AcceptsRequest(id) /\ ~in_flight[id]) =>
              /\ in_flight'[id]
              /\ nSpawned' = nSpawned + 1
              /\ \E t \in tasks' \ tasks : t.id = id /\ t.internal = Head(c2s).internal

\* busy[id] is cleared by the step that takes the response for id from the
\* channel, whether or not the send goes through, and by no other step; the
\* step leaves the connection task running.
C21_ClearOnTake ==
    \A id \in Ids :
        /\ (in_flight[id] /\ ~in_flight'[id]) => TakesResponse(id)
        /\ TakesResponse(id) =>
              /\ ~in_flight'[id]
              /\ nDispatched' = nDispatched + 1
              /\ srvPc' = "Running"
              /\ s2c' = IF sockUp THEN Append(s2c, Head(srv_rpc_rx)) ELSE s2c

\* Every accepted request whose response was not dispatched yet has one
\* handler task or one queued response.
C21_OneResponseEach ==
    srvPc = "Running" =>
        /\ \A id \in Ids :
              Cardinality({t \in tasks : t.id = id}) + QueuedFor(srv_rpc_rx, id)
                  = IF in_flight[id] THEN 1 ELSE 0
        /\ nSpawned = Cardinality(tasks) + Len(srv_rpc_rx) + nDispatched

\* C21: busy[id] becomes true exactly when a request for an idle id is
\* accepted and its handler spawned, becomes false exactly when that
\* handler's response is taken from the response channel (sent or not), each
\* accepted request has exactly one response to dispatch, and a failed send
\* leaves the connection task running.
C21_SlotLifecycle ==
    /\ [][C21_SetOnAccept]_vars
    /\ [][C21_ClearOnTake]_vars
    /\ []C21_OneResponseEach

\* The same connection is in view before and after the step.
SameView == other'.conn = other.conn

\* The socket of the connection in view breaks with its frames unread.
Breaks == sockUp /\ ~sockUp' /\ c2s' = <<>> /\ s2c' = <<>> /\ srvPc' = srvPc

\* The connection task in view dies of a frame it cannot decode.
DecodePanics == SameView /\ srvPc = "Running" /\ srvPc' = "Panicked"

\* The frame that ends the task is one that is no ClientMessage, it ends the
\* task and closes the socket of the connection it arrived on, and the other
\* connection is left as it was.
C22_PanicContained ==
    /\ DecodePanics =>
          /\ c2s # <<>> /\ Head(c2s).type = "Garbage"
          /\ ~sockUp'
          /\ other' = other
    /\ (SameView /\ srvPc = "Running" /\ c2s # <<>> /\ c2s' = Tail(c2s)
            /\ Head(c2s).type = "Garbage" /\ ~Breaks) => srvPc' = "Panicked"

\* With the other connection's task dead, the connection in view is still
\* accepted, still reads its socket and its channels, and its handlers
\* still run.
C22_OthersKeepServing ==
    other.srvPc = "Panicked" =>
        /\ (srvPc = "Accepted" /\ hsReq.sent) => ENABLED ServerAccept
        /\ (srvPc = "Running" /\ c2s # <<>>) => ENABLED ServerSocketRecv
        /\ (srvPc = "Running" /\ srv_rpc_rx # <<>>) => ENABLED ServerResponseRecv
        /\ (srvPc = "Running" /\ state_change_rx # <<>>) => ENABLED ServerStateChangeRecv
        /\ \A t \in tasks :
              /\ (t.pc = "start" /\ holder = 0) => ENABLED HandlerLock(t)
              /\ t.pc = "locked" => ENABLED HandlerRelease(t)
              /\ (t.pc = "respond" /\ srvPc = "Running" /\ Len(srv_rpc_rx) < ResponseCap)
                    => ENABLED HandlerRespond(t)

\* C22: a binary frame that does not decode as a ClientMessage ends the
\* connection task it arrived on and nothing else: the other connection's
\* state is untouched, and it goes on being accepted and served.
C22_DecodeFailureContained == [][C22_PanicContained]_vars /\ []C22_OthersKeepServing

\* One connection's task has died of an undecodable frame while the other
\* connection, accepted and running, has a handler about to respond.
C22_Witness ==
    /\ other.srvPc = "Panicked"
    /\ srvPc = "Running"
    /\ sockUp
    /\ \E t \in tasks : t.pc = "respond"

BadInput == ErrOutput("BadInputBytes")

\* Bytes that are no RpcCall, or an RpcCall whose arguments are not the four
\* bytes of its method's amount.
BadPayload(internal) ==
    \/ internal.method \notin {"Increment", "Decrement", "Get"}
    \/ internal.method \in {"Increment", "Decrement"} /\ Len(internal.args) # 4

\* A handler task whose payload does not decode never takes the guard, and
\* what it has to send is Err(BadInputBytes).
C23_NeverLocks ==
    \A t \in tasks :
        BadPayload(t.internal) =>
            /\ t.pc \in {"start", "respond"}
            /\ holder # t.tid
            /\ t.pc = "respond" => t.output = BadInput

\* The two steps of such a task: it gives up on the payload, then hands
\* Err(BadInputBytes) for its ID to the response channel.  Neither touches
\* the state, the mutex, the diffs, the busy table or another task.
C23_BadPayloadSteps ==
    \A t \in tasks :
        (BadPayload(t.internal) /\ t \notin tasks') =>
            /\ IF t.pc = "start"
               THEN /\ tasks' = (tasks \ {t}) \cup
                                   {[t EXCEPT !.pc = "respond", !.output = BadInput]}
                    /\ srv_rpc_rx' = srv_rpc_rx
               ELSE /\ tasks' = tasks \ {t}
                    /\ srvPc = "Running" =>
                          srv_rpc_rx' = Append(srv_rpc_rx, RPCResponse(t.id, BadInput))
            /\ srvState' = srvState /\ holder' = holder
            /\ diffTasks' = diffTasks /\ nReleased' = nReleased
            /\ state_change_rx' = state_change_rx /\ wireLog' = wireLog
            /\ in_flight' = in_flight
            /\ s2c' = s2c /\ cliState' = cliState
            /\ callOutcome' = callOutcome /\ active_rpc_calls' = active_rpc_calls

\* The connection loop takes the error from the channel like any response:
\* the ID is idle again and the frame goes out on the socket.
C23_ErrorClearsBusy ==
    \A id \in Ids :
        (TakesResponse(id) /\ Head(srv_rpc_rx).output = BadInput) =>
            /\ ~in_flight'[id]
            /\ \A j \in Ids \ {id} : in_flight'[j] = in_flight[j]
            /\ sockUp => s2c' = Append(s2c, RPCResponse(id, BadInput))
            /\ tasks' = tasks /\ srvState' = srvState

\* The client hands the error to the call in the slot of that ID and to no
\* other call.
C23_ErrorDelivered ==
    (ReadsFrame /\ Head(s2c).type = "RPCResponse" /\ Head(s2c).output = BadInput
        /\ active_rpc_calls[Head(s2c).id] # NoCall) =>
        LET c == active_rpc_calls[Head(s2c).id]
        IN  /\ callOutcome'[c] = BadInput
            /\ \A d \in Calls \ {c} : callOutcome'[d] = callOutcome[d]
            /\ cliState' = cliState

\* C23: a request whose payload the handler cannot decode is answered with
\* Err(BadInputBytes) on the handle of that call, changes no state and
\* produces no StateChange, frees its ID on the server, and leaves the calls
\* on other IDs as they are.
C23_BadPayloadIsolation ==
    /\ []C23_NeverLocks
    /\ [][C23_BadPayloadSteps]_vars
    /\ [][C23_ErrorClearsBusy]_vars
    /\ [][C23_ErrorDelivered]_vars

\* The first call, sent on ID 0 with an undecodable payload, came back as
\* Err(BadInputBytes) with its ID idle again; the second, sent on ID 1 while
\* the first was pending, incremented the counter and came back Ok.
C23_Witness ==
    /\ callId[1] = 0 /\ callOutcome[1] = BadInput
    /\ callId[2] = 1 /\ callOutcome[2] = OkOutput(EncodeU32(1))
    /\ srvState = 1
    /\ ~in_flight[0]
    /\ srvPc = "Running" /\ cliPc = "Running"

\* A handler that holds the guard can always finish and release it, however
\* full the state-change channel is and whether or not its receiver lives.
C24_ReleaseNeverWaits ==
    \A t \in tasks : t.pc = "locked" => ENABLED HandlerRelease(t)

\* The mutex is held only by a handler that is about to release it, and a
\* handler that awaits a free mutex gets it.
C24_NoGuardDeadlock ==
    /\ holder # 0 => \E t \in tasks : t.tid = holder /\ t.pc = "locked"
    /\ holder = 0 =>
          \A t \in tasks : (t.pc = "start" /\ ValidInput(t.internal)) => ENABLED HandlerLock(t)

\* The release itself puts nothing on the channel: what changed is left to
\* a detached task, and the handler's result is the counter it computed.
C24_ReleaseStep ==
    (holder # 0 /\ holder' = 0) =>
        /\ state_change_rx' = state_change_rx
        /\ \E t \in tasks : \E u \in tasks' :
              /\ t.tid = holder /\ u.tid = holder
              /\ u.pc = "respond" /\ u.output = OkOutput(EncodeU32(srvState'))
        /\ srvState' # srvState => Cardinality(diffTasks') = Cardinality(diffTasks) + 1

\* A change whose channel is closed is dropped: nothing is enqueued, and
\* no handler, result or response is touched.
C24_ClosedDrops ==
    \A d \in diffTasks :
        (d \notin diffTasks' /\ ~ReceiversAlive) =>
            /\ state_change_rx' = state_change_rx
            /\ tasks' = tasks
            /\ srv_rpc_rx' = srv_rpc_rx
            /\ srvState' = srvState /\ holder' = holder

\* C24: releasing a state guard never waits for room on the state-change
\* channel; the mutex is released with the channel full or closed, so no
\* handler that holds or awaits the guard is stuck behind the connection
\* loop, and a change that meets a closed channel is dropped without a
\* trace in the handler's result.
C24_NonBlockingRelease ==
    /\ []C24_ReleaseNeverWaits
    /\ []C24_NoGuardDeadlock
    /\ [][C24_ReleaseStep]_vars
    /\ [][C24_ClosedDrops]_vars

\* The state-change channel is full and a third increment holds the guard
\* with its change still to come.
C24_Witness ==
    /\ Len(state_change_rx) = StateChangeCap
    /\ \E t \in tasks : t.pc = "locked" /\ t.internal.method = "Increment"
    /\ nReleased = StateChangeCap

\* No channel holds more than its capacity.
C25_Bounded ==
    /\ Len(rpc_rx) <= SubmitCap
    /\ Len(srv_rpc_rx) <= ResponseCap
    /\ Len(state_change_rx) <= StateChangeCap

\* Release numbers of the change lists in a set or sequence of diffs.
RelsOf(S) == {d.rel : d \in S}
InChannel(q) == {q[k] : k \in 1 .. Len(q)}

\* What a producer hands over is in the channel afterwards: a submitted call,
\* the response of a handler whose receiver lives, a change list whose
\* receiver lives.
C25_NothingDropped ==
    /\ nSubmitted' = nSubmitted + 1 =>
          /\ Len(rpc_rx) < SubmitCap
          /\ rpc_rx' = Append(rpc_rx, rpc_rx'[Len(rpc_rx')])
          /\ rpc_rx'[Len(rpc_rx')].call = nSubmitted'
    /\ \A t \in tasks :
          (t.pc = "respond" /\ t \notin tasks' /\ ReceiversAlive) =>
              srv_rpc_rx' = Append(srv_rpc_rx, RPCResponse(t.id, t.output))
    /\ \A d \in diffTasks :
          (d \notin diffTasks' /\ ReceiversAlive) =>
              state_change_rx' = Append(state_change_rx, d)

\* The loop took the call from the submit channel.
TakenByLoop(c) == callStatus[c] \in {"pending", "done"} /\ callOutcome[c] # Cancelled

\* Every response and every change list handed to a channel is taken by the
\* server loop.
C25_ServerTakes ==
    /\ \A id \in Ids :
          (QueuedFor(srv_rpc_rx, id) > 0) ~> (QueuedFor(srv_rpc_rx, id) = 0)
    /\ \A rel \in 1 .. MaxCalls :
          (rel \in RelsOf(diffTasks)) ~>
              (rel \notin RelsOf(diffTasks) /\ rel \notin RelsOf(InChannel(state_change_rx)))

\* Every call in the submit channel is taken by the client loop, shutdown
\* or not.
C25_EveryCallTaken ==
    \A c \in Calls : (callStatus[c] = "queued") ~> TakenByLoop(c)

Busy == {id \in Ids : in_flight[id]}

\* C26: on a connection the handler tasks still running plus the responses
\* waiting in the response channel never outnumber the busy IDs, so never
\* the ID space, and a handler task that has its response ready finds room
\* in the channel at once.
C26_ResponsesFit ==
    /\ Cardinality(tasks) + Len(srv_rpc_rx) <= Cardinality(Busy)
    /\ Cardinality(Busy) <= ResponseCap
    /\ \A t \in tasks : t.pc = "respond" => ENABLED HandlerRespond(t)

\* Every ID is busy and the response of each is in the channel: the last
\* handler to finish still found room.
C26_Witness ==
    /\ srvPc = "Running"
    /\ Busy = Ids
    /\ Len(srv_rpc_rx) = ResponseCap
    /\ tasks = {}

\* The transport has delivered every frame so far and the client loop has
\* not exited.
Conforming == cliPc = "Running" /\ sockUp

\* A frame of the given type for id is in the sequence.
FrameFor(q, type, id) == \E k \in 1 .. Len(q) : q[k].type = type /\ q[k].id = id

\* The server or the wire still knows of a call on id.
InProgress(id) ==
    \/ in_flight[id]
    \/ FrameFor(c2s, "RPCRequest", id)
    \/ FrameFor(srv_rpc_rx, "RPCResponse", id)
    \/ FrameFor(s2c, "RPCResponse", id)

C27_PendingWhileInProgress ==
    Conforming => \A id \in Ids : InProgress(id) => active_rpc_calls[id] # NoCall

\* Neither warning branch is reached: no response arrives for a free slot
\* and no request for a busy ID.
C27_NoWarnings ==
    Conforming =>
        /\ nIgnored = 0
        /\ (s2c # <<>> /\ Head(s2c).type = "RPCResponse")
              => active_rpc_calls[Head(s2c).id] # NoCall
        /\ (c2s # <<>> /\ srvPc = "Running") => ~in_flight[Head(c2s).id]

\* C27: between HardLight's own client and server, with every frame
\* delivered in order and the client loop running, the client's slot id is
\* pending whenever the server has id busy or a request or response for id
\* is on the wire or queued; so the client never reads a response for a free
\* slot and the server never reads a request for a busy ID.
C27_SlotAgreement == C27_PendingWhileInProgress /\ C27_NoWarnings

\* ID 0 has been used, freed and handed out again: the second call's
\* request for it is on the wire, the server has it idle, and the first
\* call has its response.
C27_Witness ==
    /\ Conforming /\ srvPc = "Running"
    /\ callId[1] = 0 /\ callOutcome[1].tag = "Ok"
    /\ \E c \in Calls : c > 1 /\ callId[c] = 0 /\ active_rpc_calls[0] = c
    /\ FrameFor(c2s, "RPCRequest", 0)
    /\ ~in_flight[0]

\* What a connection holds adds up within the connection: every busy ID has
\* one task or one queued response of its own, every response sent or queued
\* comes from a task it spawned, and its counter is the sum of its own
\* increments, each of which produced one change list.
ConnConsistent(k) ==
    /\ k.srvPc = "Running" =>
          /\ \A id \in Ids :
                Cardinality({t \in k.tasks : t.id = id}) + QueuedFor(k.srv_rpc_rx, id)
                    = IF k.in_flight[id] THEN 1 ELSE 0
          /\ k.nSpawned = Cardinality(k.tasks) + Len(k.srv_rpc_rx) + k.nDispatched
    /\ Cardinality(k.tasks) + Len(k.srv_rpc_rx) + k.nDispatched <= k.nSpawned
    /\ Cardinality({i \in 1 .. Len(k.s2c) : k.s2c[i].type = "RPCResponse"}) <= k.nDispatched
    /\ k.srvState = k.nReleased
    /\ k.nReleased <= k.nSpawned
    /\ \A i \in 1 .. Len(k.s2c) :
          /\ k.s2c[i].type = "StateChange" => k.s2c[i].rel \in 1 .. k.nReleased
          /\ k.s2c[i].type = "RPCResponse" /\ k.s2c[i].output.tag = "Ok"
                => \E n \in 0 .. k.nReleased : k.s2c[i].output = OkOutput(EncodeU32(n))

C28_EachItsOwn == ConnConsistent(InView) /\ ConnConsistent(other)

\* A step of one connection's tasks leaves everything the other connection
\* owns as it was; a request for an ID the connection has idle is accepted
\* whatever the other connection's table says.
C28_StepsStayInside ==
    SameView =>
        /\ other' = other
        /\ \A id \in Ids :
              (AcceptsRequest(id) /\ ~in_flight[id]) =>
                  /\ in_flight'[id]
                  /\ \E t \in tasks' \ tasks : t.id = id

\* C28: each connection has its own handler, state, busy table, response
\* channel and state-change channel: the responses and state changes on a
\* connection's socket stem from calls made on that connection, a step of
\* one connection changes nothing of the other, and an ID busy on one
\* connection is accepted on the other.
C28_Isolation == []C28_EachItsOwn /\ [][C28_StepsStayInside]_vars

\* ID 0 is busy on both connections at once, each with a handler of its own;
\* the one in view has incremented its counter, the other has not yet.
C28_Witness ==
    /\ in_flight[0] /\ other.in_flight[0]
    /\ srvPc = "Running" /\ other.srvPc = "Running"
    /\ \E t \in tasks : t.id = 0 /\ t.pc = "respond"
    /\ \E u \in other.tasks : u.id = 0 /\ u.pc = "start"
    /\ srvState = 1 /\ other.srvState = 0

\* The call's completion handle carries a response or an RpcError.
Resolved(c) ==
    /\ callStatus[c] = "done"
    /\ signalled[c] = 1
    /\ \/ callOutcome[c].tag = "Ok"
       \/ \E e \in RpcErrors : callOutcome[c] = ErrOutput(e)

\* C29: with a transport that loses nothing, handlers that return and no
\* shutdown, every call accepted into the submit channel eventually has its
\* completion handle resolved with a response or an RpcError, whatever the
\* interleaving of the two loops, the handler tasks and the diff senders.
C29_Progress == \A c \in Calls : (callStatus[c] = "queued") ~> Resolved(c)

\* All calls are resolved, one of them turned away for want of a free ID,
\* and nothing is left in any channel or on the wire.
C29_Witness ==
    /\ \A c \in Calls : Resolved(c)
    /\ \E c \in Calls : callOutcome[c] = ErrOutput("TooManyCallsInFlight")
    /\ \E c \in Calls : callOutcome[c].tag = "Ok"
    /\ tasks = {} /\ diffTasks = {}
    /\ srv_rpc_rx = <<>> /\ state_change_rx = <<>> /\ c2s = <<>> /\ s2c = <<>>

====
